---- MODULE Spec2Model ----
(***************************************************************************)
(* Model of the retrieval core of chat-with-pdf.                           *)
(*                                                                         *)
(* Flat-index variant: vector_store.py (VectorStoreManager) behind the     *)
(* endpoints of main.py.  In-memory variant: app.py.                       *)
(*                                                                         *)
(* Embeddings are 2-component integer vectors.  index.search of faiss      *)
(* IndexFlatL2 reports squared L2 distances, which are exact on integers.  *)
(* 1 / (1 + dist) is kept as the integer 1000 \div (1 + dist), cosine      *)
(* similarity as an integer that orders pairs exactly as the cosine does.  *)
(***************************************************************************)
EXTENDS Integers, Sequences, FiniteSets, TLC

(* ---------------------------------------------------------------- bounds *)
MaxRows == 3
MaxK == 2
MaxChunks == 2
MaxFiles == 2
MaxAsked == 2
MaxFaults == 1
MaxHistory == 52
LongWords == 950
MaxWords == 5
MaxSize == 4
MaxSuspended == 2

DocIds == {"d1", "d2"}
Texts == {"ta", "tb"}
Queries == {"qa", "qb"}

(* ------------------------------------------------------- program constants *)
MAX_CONTEXT_LENGTH == 4000

VARIABLES
  variant,          \* which program runs: "main" (main.py over vector_store.py) or "app" (app.py)
  index,            \* VectorStoreManager.index: the rows of the flat index, row id r at position r + 1
  metadata_store,   \* VectorStoreManager.metadata_store: str(row id) -> chunk payload
  document_chunks,  \* VectorStoreManager.document_chunks: document id -> document record
  index_file,       \* on-disk artifact  <FAISS_INDEX_PATH>/index.faiss
  metadata_file,    \* on-disk artifact  METADATA_PATH
  app_document_chunks,  \* app.py document_chunks: the chunks of the loaded document
  chunk_embeddings,     \* app.py chunk_embeddings
  chat_history,         \* app.py chat_history
  suspended,            \* app.py: the files of the upload_document calls waiting in "await file.read()"
  faults,           \* the number of snapshot writes that have failed
  now,              \* the clock datetime.now() reads: the number of history appends so far
  last,             \* what the last call did and returned
  deleted,          \* history: ids for which delete_document returned True and that were not added again
  issued,           \* history: row ids handed out by add_document in this process
  issued_epoch,     \* history: row ids handed out by add_document since the last clear_all of this process
  answered          \* history: the items of the queries answered since the last clear_history

store_vars == <<index, metadata_store, document_chunks, index_file, metadata_file>>

history_vars == <<deleted, issued, issued_epoch, faults>>

app_vars == <<app_document_chunks, chunk_embeddings, chat_history, suspended, now, answered>>

vars == <<variant, index, metadata_store, document_chunks, index_file, metadata_file,
          faults, app_document_chunks, chunk_embeddings, chat_history, suspended, now, last,
          deleted, issued, issued_epoch, answered>>

(* ------------------------------------------------------------ small helpers *)
Min(a, b) == IF a < b THEN a ELSE b

Range(s) == {s[i] : i \in 1..Len(s)}

RECURSIVE SumSeq(_)
SumSeq(s) == IF s = <<>> THEN 0 ELSE Head(s) + SumSeq(Tail(s))

Digit(n) == <<"0", "1", "2", "3", "4", "5", "6", "7", "8", "9">>[n + 1]

(* str(vector_id): the decimal string that keys metadata_store *)
RECURSIVE ToStr(_)
ToStr(n) == IF n < 10 THEN Digit(n) ELSE ToStr(n \div 10) \o Digit(n % 10)

EmptyMap == [k \in {} |-> k]

(* ------------------------------------------------------------- the embedder *)
(* SentenceTransformer.encode: deterministic, one vector per text *)
Encode(text) ==
  CASE text = "ta" -> <<1, 0>>
    [] text = "tb" -> <<0, 2>>
    [] text = "tc" -> <<2, 2>>
    [] text = "qa" -> <<1, 0>>
    [] text = "qb" -> <<1, 1>>
    [] OTHER -> <<3, 3>>

(* len(chunk['text']) *)
TextLen(text) ==
  CASE text = "ta" -> 900
    [] text = "tb" -> 3200
    [] OTHER -> 3990

(* squared L2 distance, as IndexFlatL2 reports it *)
L2(a, b) == (a[1] - b[1]) * (a[1] - b[1]) + (a[2] - b[2]) * (a[2] - b[2])

(* 1 / (1 + float(dist)), in thousandths *)
Similarity(dist) == 1000 \div (1 + dist)

(* ====================================================================== *)
(*  vector_store.py : VectorStoreManager                                   *)
(* ====================================================================== *)

(* An on-disk artifact is absent, unreadable (a partial write), or holds data. *)
Absent == [state |-> "absent", data |-> <<>>]
Corrupt == [state |-> "corrupt", data |-> <<>>]
Written(d) == [state |-> "ok", data |-> d]

(* How one call of _save_index can end: it returns, or one of its two writes
   raises, leaving that artifact as it was or partially written. *)
SaveOutcomes == {"ok", "index_fail", "index_partial", "meta_fail", "meta_partial"}

(* The in-memory fields and the two artifacts, as one record. *)
Store == [index |-> index, metadata_store |-> metadata_store,
          document_chunks |-> document_chunks,
          index_file |-> index_file, metadata_file |-> metadata_file]

(* faiss.IndexFlatL2(self.dimension), {} and {} *)
EmptyStore(ifile, mfile) ==
  [index |-> <<>>, metadata_store |-> EmptyMap, document_chunks |-> EmptyMap,
   index_file |-> ifile, metadata_file |-> mfile]

(* json.dump of the two dictionaries: string keys and integer lists are
   written as they are *)
MetadataJson(s) ==
  [metadata_store |-> s.metadata_store, document_chunks |-> s.document_chunks]

(* _save_index writing the index and leaving the metadata file alone *)
_save_index_indexonly(s, outcome) ==
  IF outcome = "ok"
  THEN [s |-> [s EXCEPT !.index_file = Written(s.index)], raised |-> FALSE]
  ELSE [s |-> s, raised |-> TRUE]

(* _save_index: write_index first, then the JSON file; any failure is re-raised *)
_save_index(s, outcome) ==
  CASE outcome = "ok" ->
         [s |-> [s EXCEPT !.index_file = Written(s.index),
                          !.metadata_file = Written(MetadataJson(s))],
          raised |-> FALSE]
    [] outcome = "index_fail" ->
         [s |-> s, raised |-> TRUE]
    [] outcome = "index_partial" ->
         [s |-> [s EXCEPT !.index_file = Corrupt], raised |-> TRUE]
    [] outcome = "meta_fail" ->
         [s |-> [s EXCEPT !.index_file = Written(s.index)], raised |-> TRUE]
    [] OTHER ->
         [s |-> [s EXCEPT !.index_file = Written(s.index),
                          !.metadata_file = Corrupt],
          raised |-> TRUE]

(* _load_index, on the freshly constructed (empty) manager.  Both artifacts
   must exist; read_index assigns self.index before the JSON file is opened,
   and every exception is swallowed with a warning. *)
_load_index(s) ==
  IF s.index_file.state = "absent" \/ s.metadata_file.state = "absent"
  THEN [s |-> s, warned |-> FALSE, loaded |-> FALSE]
  ELSE IF s.index_file.state = "corrupt"
  THEN [s |-> s, warned |-> TRUE, loaded |-> FALSE]
  ELSE IF s.metadata_file.state = "corrupt"
  THEN [s |-> [s EXCEPT !.index = s.index_file.data], warned |-> TRUE, loaded |-> FALSE]
  ELSE [s |-> [s EXCEPT !.index = s.index_file.data,
                        !.metadata_store = s.metadata_file.data.metadata_store,
                        !.document_chunks = s.metadata_file.data.document_chunks],
        warned |-> FALSE, loaded |-> TRUE]

(* __init__: empty index and dictionaries, then _load_index *)
VectorStoreManager_init(ifile, mfile) == _load_index(EmptyStore(ifile, mfile))

(* create_embeddings(texts): one vector per text *)
create_embeddings(texts) == [i \in 1..Len(texts) |-> Encode(texts[i])]

(* numbering every document from the number of documents *)
StartIdx_docs(s) == Cardinality(DOMAIN s.document_chunks)

(* start_idx = self.index.ntotal *)
StartIdx(s) == Len(s.index)

(* the payload add_document stores for chunk number idx (0-based) *)
Payload(document_id, chunks, idx) ==
  [document_id |-> document_id, chunk_id |-> chunks[idx + 1].chunk_id,
   text |-> chunks[idx + 1].text, filename |-> chunks[idx + 1].filename]

(* add_document: embed, append to the index, record the payloads and the
   document, then save.  embed_ok = FALSE is create_embeddings raising. *)
add_document(s, document_id, chunks, embed_ok, outcome) ==
  IF ~embed_ok
  THEN [s |-> s, raised |-> TRUE, ids |-> <<>>, saved |-> FALSE]
  ELSE
    LET start_idx == StartIdx(s)
        n == Len(chunks)
        texts == [i \in 1..n |-> chunks[i].text]
        newkeys == {ToStr(start_idx + idx) : idx \in 0..(n - 1)}
        KeyIdx(k) == CHOOSE idx \in 0..(n - 1) : ToStr(start_idx + idx) = k
        s1 == [s EXCEPT
                 !.index = s.index \o create_embeddings(texts),
                 !.metadata_store =
                    [k \in DOMAIN s.metadata_store \cup newkeys |->
                       IF k \in newkeys THEN Payload(document_id, chunks, KeyIdx(k))
                       ELSE s.metadata_store[k]],
                 !.document_chunks =
                    [d \in DOMAIN s.document_chunks \cup {document_id} |->
                       IF d = document_id
                       THEN [filename |-> chunks[1].filename,
                             chunk_count |-> n,
                             vector_ids |-> [i \in 1..n |-> start_idx + i - 1]]
                       ELSE s.document_chunks[d]]]
        saved == _save_index(s1, outcome)
    IN [s |-> saved.s, raised |-> saved.raised,
        ids |-> [i \in 1..n |-> start_idx + i - 1], saved |-> ~saved.raised]

(* delete_document forgetting the payloads of the document *)
KeysToRemove_none(s, document_id) == {}

(* keys_to_remove of delete_document *)
KeysToRemove(s, document_id) ==
  {k \in DOMAIN s.metadata_store : s.metadata_store[k].document_id = document_id}

(* delete_document: False for an unknown id; else drop the document and its
   payloads (the index rows stay) and save *)
delete_document(s, document_id, outcome) ==
  IF document_id \notin DOMAIN s.document_chunks
  THEN [s |-> s, raised |-> FALSE, returned |-> FALSE]
  ELSE
    LET s1 == [s EXCEPT
                 !.document_chunks =
                    [d \in DOMAIN s.document_chunks \ {document_id} |-> s.document_chunks[d]],
                 !.metadata_store =
                    [k \in DOMAIN s.metadata_store \ KeysToRemove(s, document_id) |->
                       s.metadata_store[k]]]
        saved == _save_index(s1, outcome)
    IN [s |-> saved.s, raised |-> saved.raised, returned |-> ~saved.raised]

(* clear_all: a new empty index, empty dictionaries, then save *)
clear_all(s, outcome) ==
  _save_index(EmptyStore(s.index_file, s.metadata_file), outcome)

(* list_documents: the ids of document_chunks *)
list_documents(s) == DOMAIN s.document_chunks

(* ------------------------------------------------------------------ search *)

(* The document_ids argument: None, or a list of ids *)
NoFilter == [supplied |-> FALSE, ids |-> {}]
Filters == {NoFilter} \cup [supplied : {TRUE}, ids : SUBSET DocIds]

(* Python truth of document_ids: None and the empty list are both false *)
Truthy(document_ids) == document_ids.supplied /\ document_ids.ids # {}

(* All orders of the rows 0..ntotal-1 by non-decreasing distance to the query.
   IndexFlatL2 fixes no order among rows at equal distance. *)
ScanOrders(idx, q) ==
  LET n == Len(idx)
      dist(r) == L2(q, idx[r + 1])
  IN {p \in [1..n -> 0..(n - 1)] :
        /\ \A i, j \in 1..n : i # j => p[i] # p[j]
        /\ \A i \in 1..(n - 1) : dist(p[i]) <= dist(p[i + 1])}

(* self.index.search(query_embedding, k): the k nearest rows, nearest first *)
IndexSearch(order, k) == SubSeq(order, 1, k)

(* one result dictionary of search, with the row it came from *)
ResultOf(s, q, row) ==
  LET metadata == s.metadata_store[ToStr(row)]
      dist == L2(q, s.index[row + 1])
  IN [text |-> metadata.text, document_id |-> metadata.document_id,
      chunk_id |-> metadata.chunk_id, filename |-> metadata.filename,
      score |-> dist, similarity |-> Similarity(dist), row |-> row]

(* the filter of the loop body: a row with no payload is skipped, and so is a
   row of a document outside a (true) document_ids *)
Skipped(s, row, document_ids) ==
  \/ ToStr(row) \notin DOMAIN s.metadata_store
  \/ /\ Truthy(document_ids)
     /\ s.metadata_store[ToStr(row)].document_id \notin document_ids.ids

(* the loop without its "if len(results) >= top_k: break" *)
RECURSIVE Collect_nobreak(_, _, _, _, _, _)
Collect_nobreak(s, q, cands, top_k, document_ids, results) ==
  IF cands = <<>> THEN results
  ELSE IF Skipped(s, Head(cands), document_ids)
  THEN Collect_nobreak(s, q, Tail(cands), top_k, document_ids, results)
  ELSE Collect_nobreak(s, q, Tail(cands), top_k, document_ids,
                       Append(results, ResultOf(s, q, Head(cands))))

(* the loop of search over the candidates, stopping at top_k results *)
RECURSIVE Collect(_, _, _, _, _, _)
Collect(s, q, cands, top_k, document_ids, results) ==
  IF cands = <<>> THEN results
  ELSE IF Skipped(s, Head(cands), document_ids)
  THEN Collect(s, q, Tail(cands), top_k, document_ids, results)
  ELSE LET r1 == Append(results, ResultOf(s, q, Head(cands)))
       IN IF Len(r1) >= top_k THEN r1
          ELSE Collect(s, q, Tail(cands), top_k, document_ids, r1)

(* search without its "if self.index.ntotal == 0" return *)
search_embedfirst(s, query, top_k, document_ids, embed_ok, order) ==
  IF ~embed_ok
  THEN [results |-> <<>>, candidates |-> <<>>, raised |-> TRUE, embedded |-> TRUE]
  ELSE
    LET query_embedding == create_embeddings(<<query>>)[1]
        cands == IndexSearch(order, Min(top_k * 2, Len(s.index)))
    IN [results |-> Collect(s, query_embedding, cands, top_k, document_ids, <<>>),
        candidates |-> cands, raised |-> FALSE, embedded |-> TRUE]

(* search(query, top_k, document_ids), for one order of the scan.
   embed_ok = FALSE is create_embeddings raising. *)
search(s, query, top_k, document_ids, embed_ok, order) ==
  IF Len(s.index) = 0
  THEN [results |-> <<>>, candidates |-> <<>>, raised |-> FALSE, embedded |-> FALSE]
  ELSE IF ~embed_ok
  THEN [results |-> <<>>, candidates |-> <<>>, raised |-> TRUE, embedded |-> TRUE]
  ELSE
    LET query_embedding == create_embeddings(<<query>>)[1]
        cands == IndexSearch(order, Min(top_k * 2, Len(s.index)))
    IN [results |-> Collect(s, query_embedding, cands, top_k, document_ids, <<>>),
        candidates |-> cands, raised |-> FALSE, embedded |-> TRUE]

(* ====================================================================== *)
(*  query_engine.py : QueryEngine                                          *)
(* ====================================================================== *)

(* len(f"[Source {idx} - {filename}]:\n{text}\n") *)
ChunkLength(idx, chunk) ==
  Len("[Source ") + Len(ToStr(idx)) + Len(" - ") + Len(chunk.filename) + Len("]:") + 1
  + TextLen(chunk.text) + 1

(* _prepare_context: the number of leading chunks that enter the context; the
   loop stops at the first chunk that would pass max_length *)
RECURSIVE _prepare_context(_, _, _, _)
_prepare_context(chunks, idx, current_length, max_length) ==
  IF idx > Len(chunks) THEN idx - 1
  ELSE IF current_length + ChunkLength(idx, chunks[idx]) > max_length THEN idx - 1
  ELSE _prepare_context(chunks, idx + 1,
                        current_length + ChunkLength(idx, chunks[idx]), max_length)

(* sources of generate_answer: the first chunk of each document, in order *)
RECURSIVE Sources(_, _)
Sources(chunks, seen_docs) ==
  IF chunks = <<>> THEN <<>>
  ELSE IF Head(chunks).document_id \in seen_docs THEN Sources(Tail(chunks), seen_docs)
  ELSE <<[document_id |-> Head(chunks).document_id, chunk_id |-> Head(chunks).chunk_id,
          relevance_score |-> Head(chunks).similarity]>>
       \o Sources(Tail(chunks), seen_docs \cup {Head(chunks).document_id})

(* generate_answer(query, context_chunks).  gen_ok = FALSE is generate_content
   raising.  Confidence in thousandths. *)
generate_answer(context_chunks, gen_ok) ==
  LET used == _prepare_context(context_chunks, 1, 0, MAX_CONTEXT_LENGTH)
  IN IF used = 0
     THEN [raised |-> FALSE, kind |-> "no_context", sources |-> <<>>, confidence |-> 0,
           generated |-> FALSE, used |-> 0]
     ELSE IF ~gen_ok
     THEN [raised |-> TRUE, kind |-> "error", sources |-> <<>>, confidence |-> 0,
           generated |-> TRUE, used |-> used]
     ELSE
       LET avg_similarity ==
             SumSeq([i \in 1..Len(context_chunks) |-> context_chunks[i].similarity])
               \div Len(context_chunks)
       IN [raised |-> FALSE, kind |-> "answer",
           sources |-> Sources(context_chunks, {}),
           confidence |-> Min(avg_similarity, 1000),
           generated |-> TRUE, used |-> used]

(* ====================================================================== *)
(*  main.py : the endpoints over the VectorStoreManager                    *)
(* ====================================================================== *)

(* str.endswith *)
EndsWith(str, suffix) ==
  /\ Len(str) >= Len(suffix)
  /\ SubSeq(str, Len(str) - Len(suffix) + 1, Len(str)) = suffix

(* the chunk dictionaries create_chunks builds from the splitter's pieces *)
Chunks(texts, filename) ==
  [i \in 1..Len(texts) |-> [text |-> texts[i], chunk_id |-> i - 1, filename |-> filename]]

(* the pieces a document can be split into *)
TextLists == UNION {[1..n -> Texts] : n \in 1..MaxChunks}

(* process_pdf: extraction can raise; a text that is empty after strip() raises
   ValueError.  The text is the page markers and page texts, so it is empty
   exactly for a file with no pages. *)
process_pdf(file) ==
  IF file.extract = "raise" THEN [exc |-> "Exception", chunks |-> <<>>]
  ELSE IF file.pages = 0 THEN [exc |-> "ValueError", chunks |-> <<>>]
  ELSE [exc |-> "none", chunks |-> Chunks(file.texts, file.filename)]

(* the body of the loop of upload_documents for one file *)
UploadFile(s, file) ==
  IF ~EndsWith(file.filename, ".pdf")
  THEN [s |-> s, exc |-> "HTTPException400", ids |-> <<>>]
  ELSE
    LET doc_info == process_pdf(file)
    IN IF doc_info.exc # "none"
       THEN [s |-> s, exc |-> doc_info.exc, ids |-> <<>>]
       ELSE LET r == add_document(s, file.document_id, doc_info.chunks,
                                  file.embed_ok, file.outcome)
            IN [s |-> r.s, exc |-> IF r.raised THEN "Exception" ELSE "none", ids |-> r.ids]

(* "except Exception as e: raise HTTPException(status_code=500, ...)".
   HTTPException is an Exception, so the handler's own 400 is caught too. *)
Main_except(exc) == 500

(* upload_documents(files): file after file, the first exception ends the
   request *)
RECURSIVE upload_documents(_, _)
upload_documents(s, files) ==
  IF files = <<>>
  THEN [s |-> s, status |-> 200, exc |-> "none", ids |-> <<>>, added |-> {}]
  ELSE
    LET r == UploadFile(s, Head(files))
        doc == IF r.ids = <<>> THEN {} ELSE {Head(files).document_id}
    IN IF r.exc # "none"
       THEN [s |-> r.s, status |-> Main_except(r.exc), exc |-> r.exc, ids |-> r.ids,
             added |-> doc]
       ELSE LET rest == upload_documents(r.s, Tail(files))
            IN [s |-> rest.s, status |-> rest.status, exc |-> rest.exc,
                ids |-> r.ids \o rest.ids, added |-> doc \cup rest.added]

(* the QueryResponse built from the response, or the 500 for generate_answer raising *)
Replied(response) ==
  IF response.raised
  THEN [status |-> Main_except("Exception"), kind |-> "error", sources |-> <<>>,
        confidence |-> 0, generated |-> TRUE, used |-> response.used]
  ELSE [status |-> 200, kind |-> response.kind, sources |-> response.sources,
        confidence |-> response.confidence, generated |-> response.generated,
        used |-> response.used]

(* query_documents without its "if not relevant_chunks" reply *)
Answered_always(found, gen_ok) ==
  IF found.raised
  THEN [status |-> Main_except("Exception"), kind |-> "error", sources |-> <<>>,
        confidence |-> 0, generated |-> FALSE, used |-> 0]
  ELSE Replied(generate_answer(found.results, gen_ok))

(* the reply of query_documents to what search found *)
Answered(found, gen_ok) ==
  IF found.raised
  THEN [status |-> Main_except("Exception"), kind |-> "error", sources |-> <<>>,
        confidence |-> 0, generated |-> FALSE, used |-> 0]
  ELSE IF found.results = <<>>
  THEN [status |-> 200, kind |-> "no_relevant", sources |-> <<>>, confidence |-> 0,
        generated |-> FALSE, used |-> 0]
  ELSE Replied(generate_answer(found.results, gen_ok))

(* the reply together with what search returned *)
WithSearch(found, gen_ok) ==
  [reply |-> Answered(found, gen_ok), found |-> found]

(* query_documents of main.py: search, a fixed reply when nothing came back,
   else generate_answer; every exception becomes a 500 *)
Main_query_documents(s, query, top_k, document_ids, embed_ok, order, gen_ok) ==
  WithSearch(search(s, query, top_k, document_ids, embed_ok, order), gen_ok)

(* ====================================================================== *)
(*  app.py : the in-memory variant                                         *)
(* ====================================================================== *)

(* A text is the sequence of its words, text.split(); it is empty after
   strip() exactly when it has no word. *)

(* words[i:i + chunk_size], 0-based and clipped as Python slices are *)
Slice(words, i, j) == SubSeq(words, i + 1, Min(j, Len(words)))

(* chunk_text: one chunk of up to chunk_size words at every offset
   0, step, 2*step, ... below len(words), step = chunk_size - overlap.
   range() with a step that is not positive yields nothing here. *)
RECURSIVE ChunksFrom(_, _, _, _)
ChunksFrom(words, i, chunk_size, step) ==
  IF i >= Len(words) THEN <<>>
  ELSE LET chunk == Slice(words, i, i + chunk_size)
       IN (IF chunk # <<>> THEN <<chunk>> ELSE <<>>)
          \o ChunksFrom(words, i + step, chunk_size, step)

(* chunk_text stepping by chunk_size, so that no chunk overlaps the next *)
chunk_text_nooverlap(words, chunk_size, overlap) ==
  IF chunk_size - overlap <= 0 THEN <<>>
  ELSE ChunksFrom(words, 0, chunk_size, chunk_size)

chunk_text(words, chunk_size, overlap) ==
  IF chunk_size - overlap <= 0 THEN <<>>
  ELSE ChunksFrom(words, 0, chunk_size, chunk_size - overlap)

(* the defaults of chunk_text *)
CHUNK_SIZE_WORDS == 500
OVERLAP_WORDS == 50

(* genai.embed_content: deterministic; here a text is embedded by its first word *)
Embed(words) == Encode(words[1])

(* the vector get_embedding returns when embed_content raises: [0.0] * 768 *)
ZeroVector == <<0, 0>>

(* get_embedding: the embedding, or the zero vector when the call raises *)
get_embedding(words, ok) == IF ok THEN Embed(words) ELSE ZeroVector

Dot(a, b) == a[1] * b[1] + a[2] * b[2]

(* sklearn cosine_similarity of two vectors, 0 when one of them is zero.  Kept
   as 1000 * cos^2, which orders the non-negative vectors used here as cos does. *)
cosine_similarity(a, b) ==
  IF Dot(a, a) = 0 \/ Dot(b, b) = 0 THEN 0
  ELSE (1000 * Dot(a, b) * Dot(a, b)) \div (Dot(a, a) * Dot(b, b))

(* The results np.argsort(similarities) can give: every order of the positions
   0..n-1 by non-decreasing similarity (the default sort is not stable). *)
ArgSorts(similarities) ==
  LET n == Len(similarities)
  IN {p \in [1..n -> 0..(n - 1)] :
        /\ \A i, j \in 1..n : i # j => p[i] # p[j]
        /\ \A i \in 1..(n - 1) : similarities[p[i] + 1] <= similarities[p[i + 1] + 1]}

(* similarities of retrieve_relevant_chunks *)
Similarities(embeddings, query_embedding) ==
  [i \in 1..Len(embeddings) |-> cosine_similarity(query_embedding, embeddings[i])]

(* argsort[-top_k:][::-1] *)
TopIndices(argsort, top_k) ==
  LET n == Len(argsort)
      m == Min(top_k, n)
  IN [i \in 1..m |-> argsort[n - i + 1]]

(* retrieve_relevant_chunks(query, top_k), for one result of argsort *)
retrieve_relevant_chunks(chunks, embeddings, query, top_k, embed_ok, argsort) ==
  IF chunks = <<>>
  THEN [top_indices |-> <<>>, similarities |-> <<>>, max_similarity |-> 0,
        embedded |-> FALSE, query_embedding |-> ZeroVector]
  ELSE
    LET query_embedding == get_embedding(<<query>>, embed_ok)
        similarities == Similarities(embeddings, query_embedding)
        top_indices == TopIndices(argsort, top_k)
    IN [top_indices |-> top_indices, similarities |-> similarities,
        max_similarity |-> similarities[top_indices[1] + 1],
        embedded |-> TRUE, query_embedding |-> query_embedding]

(* the cap of the history log *)
HISTORY_CAP == 50

(* the append evicting the newest item instead of the oldest *)
AppendHistory_poplast(history, item) ==
  IF Len(history) >= HISTORY_CAP THEN history ELSE Append(history, item)

(* chat_history.append(item), then pop(0) when longer than the cap *)
AppendHistory(history, item) ==
  LET h == Append(history, item)
  IN IF Len(h) > HISTORY_CAP THEN Tail(h) ELSE h

(* the top_k query_documents of app.py passes *)
APP_TOP_K == 3

(* the in-memory state of app.py as one record *)
App == [document_chunks |-> app_document_chunks, chunk_embeddings |-> chunk_embeddings,
        chat_history |-> chat_history]

(* the first of the two assignments only: the embeddings stay as they were *)
Ingest_chunksonly(a, words, mask) ==
  [a EXCEPT !.document_chunks = chunk_text(words, CHUNK_SIZE_WORDS, OVERLAP_WORDS)]

(* "document_chunks = chunk_text(text)" and
   "chunk_embeddings = [get_embedding(chunk) for chunk in document_chunks]";
   mask[i] = FALSE is the embedding call for chunk i raising *)
Ingest(a, words, mask) ==
  LET chunks == chunk_text(words, CHUNK_SIZE_WORDS, OVERLAP_WORDS)
  IN [a EXCEPT !.document_chunks = chunks,
               !.chunk_embeddings = [i \in 1..Len(chunks) |-> get_embedding(chunks[i], mask[i])]]

(* upload_document of app.py.  file.readable = FALSE is PdfReader failing
   (answered 400 by extract_text_from_pdf) or decode('utf-8') raising. *)
upload_document(a, file, mask) ==
  IF EndsWith(file.filename, ".pdf") /\ ~file.readable THEN [a |-> a, status |-> 400]
  ELSE IF EndsWith(file.filename, ".txt") /\ ~file.readable THEN [a |-> a, status |-> 500]
  ELSE IF ~EndsWith(file.filename, ".pdf") /\ ~EndsWith(file.filename, ".txt")
  THEN [a |-> a, status |-> 400]
  ELSE IF file.words = <<>> THEN [a |-> a, status |-> 400]
  ELSE [a |-> Ingest(a, file.words, mask), status |-> 200]

(* load_wikipedia.  Its last clause, "except Exception", also catches the
   HTTPException(400) raised for an empty page. *)
load_wikipedia(a, page, mask) ==
  CASE page.outcome = "disambiguation" -> [a |-> a, status |-> 400]
    [] page.outcome = "page_error" -> [a |-> a, status |-> 404]
    [] page.outcome = "error" -> [a |-> a, status |-> 500]
    [] OTHER -> IF page.words = <<>> THEN [a |-> a, status |-> 500]
                ELSE [a |-> Ingest(a, page.words, mask), status |-> 200]

(* query_documents of app.py *)
App_query_documents(a, question, embed_ok, argsort, gen_ok, timestamp) ==
  IF a.document_chunks = <<>>
  THEN [a |-> a, status |-> 400, top_indices |-> <<>>, similarities |-> <<>>,
        confidence |-> 0, embedded |-> FALSE, generated |-> FALSE,
        query_embedding |-> ZeroVector]
  ELSE
    LET r == retrieve_relevant_chunks(a.document_chunks, a.chunk_embeddings, question,
                                      APP_TOP_K, embed_ok, argsort)
        item == [question |-> question, answer |-> "answer", timestamp |-> timestamp]
    IN [a |-> IF gen_ok
              THEN [a EXCEPT !.chat_history = AppendHistory(a.chat_history, item)]
              ELSE a,
        status |-> IF gen_ok THEN 200 ELSE 500,
        top_indices |-> r.top_indices, similarities |-> r.similarities,
        confidence |-> r.max_similarity, embedded |-> r.embedded, generated |-> TRUE,
        query_embedding |-> r.query_embedding]

(* ====================================================================== *)
(*  The two programs as a state machine                                    *)
(* ====================================================================== *)

NoCall ==
  [op |-> "start", raised |-> FALSE, returned |-> FALSE, status |-> 0, exc |-> "none",
   kind |-> "", document_id |-> "", ids |-> <<>>,
   query |-> "", top_k |-> 0, document_ids |-> NoFilter,
   results |-> <<>>, candidates |-> <<>>, embedded |-> FALSE, generated |-> FALSE,
   sources |-> <<>>, confidence |-> 0, warned |-> FALSE, loaded |-> FALSE,
   cause |-> "", query_embedding |-> ZeroVector, added |-> {},
   words |-> <<>>, chunk_size |-> 0, overlap |-> 0, chunks |-> <<>>, used |-> 0]

SetStore(s) ==
  /\ index' = s.index
  /\ metadata_store' = s.metadata_store
  /\ document_chunks' = s.document_chunks
  /\ index_file' = s.index_file
  /\ metadata_file' = s.metadata_file

SetApp(a) ==
  /\ app_document_chunks' = a.document_chunks
  /\ chunk_embeddings' = a.chunk_embeddings
  /\ chat_history' = a.chat_history

(* ---- inputs of the flat-index variant ---- *)
PdfName == "a.pdf"
OtherName == "n.txt"

NotPdf == [filename |-> OtherName, extract |-> "ok", pages |-> 1, document_id |-> "d1",
           texts |-> <<"ta">>, embed_ok |-> TRUE, outcome |-> "ok"]
Unreadable == [NotPdf EXCEPT !.filename = PdfName, !.extract = "raise"]
NoPages == [NotPdf EXCEPT !.filename = PdfName, !.pages = 0]

BadFiles == {NotPdf, Unreadable, NoPages}

GoodFiles(outcomes, textlists) ==
  {[filename |-> PdfName, extract |-> "ok", pages |-> 1, document_id |-> d,
    texts |-> t, embed_ok |-> e, outcome |-> o] :
     d \in DocIds, t \in textlists, e \in BOOLEAN, o \in outcomes}

(* a file whose processing ends the request *)
Ends(file) == file \in BadFiles \/ ~file.embed_ok \/ file.outcome # "ok"

RECURSIVE TotalChunks(_)
TotalChunks(files) ==
  IF files = <<>> THEN 0 ELSE Len(Head(files).texts) + TotalChunks(Tail(files))

(* requests of 1..maxfiles files; the files after the one that ends the request
   are never looked at, so one stands for all of them *)
Requests(outcomes, textlists, maxfiles) ==
  LET Files == {f \in BadFiles \cup GoodFiles(outcomes, textlists) :
                  f.embed_ok \/ f.outcome = "ok"}
  IN UNION {{fs \in [1..n -> Files] :
               \A i \in 1..(n - 1) : Ends(fs[i]) => fs[i + 1] = NotPdf} :
            n \in 1..maxfiles}

(* documents of one text only *)
OneTextLists == UNION {[1..n -> {"ta"}] : n \in 1..MaxChunks}

(* every snapshot write succeeds *)
WritesOk == {"ok"}

(* one file a request where the texts matter, several where the writes do *)
SearchRequests == Requests(WritesOk, TextLists, 1)
PersistRequests == Requests(SaveOutcomes, OneTextLists, MaxFiles)

(* ---- inputs of the in-memory variant ---- *)
Words(n) == [i \in 1..n |-> IF i <= 450 THEN "ta" ELSE IF i <= 900 THEN "tb" ELSE "tc"]

AppTexts == {<<>>, <<"ta", "tb">>, <<"tb">>, Words(LongWords)}

(* the readable files of every text, and one file for each way to fail before
   the text is looked at *)
AppFiles ==
  {[filename |-> f, readable |-> TRUE, words |-> w] :
     f \in {"a.pdf", "n.txt"}, w \in AppTexts}
  \cup {[filename |-> f, readable |-> FALSE, words |-> <<"ta", "tb">>] :
          f \in {"a.pdf", "n.txt"}}
  \cup {[filename |-> "x.doc", readable |-> TRUE, words |-> <<"ta", "tb">>]}

Pages ==
  {[outcome |-> "ok", words |-> w] : w \in AppTexts}
  \cup {[outcome |-> o, words |-> <<"ta", "tb">>] :
          o \in {"disambiguation", "page_error", "error"}}

(* one outcome of the embedding call per chunk of the text *)
Masks(words) ==
  [1..Len(chunk_text(words, CHUNK_SIZE_WORDS, OVERLAP_WORDS)) -> BOOLEAN]

AllOk(words) ==
  [i \in 1..Len(chunk_text(words, CHUNK_SIZE_WORDS, OVERLAP_WORDS)) |-> TRUE]

InitStore ==
  /\ index = <<>>
  /\ metadata_store = EmptyMap
  /\ document_chunks = EmptyMap
  /\ index_file = Absent
  /\ metadata_file = Absent

InitHistoryVars ==
  /\ faults = 0
  /\ deleted = {}
  /\ issued = {}
  /\ issued_epoch = {}

InitApp ==
  /\ app_document_chunks = <<>>
  /\ chunk_embeddings = <<>>
  /\ chat_history = <<>>
  /\ suspended = {}
  /\ now = 0
  /\ answered = <<>>

Init ==
  /\ variant \in {"main", "app"}
  /\ InitStore
  /\ InitHistoryVars
  /\ InitApp
  /\ last = NoCall

(* ---------------------------------------------------- main.py / vector_store *)

(* The calls that read and change nothing but last.  No call reads last, so
   the calls possible after one of them are the calls possible before it and
   lead to the same states: they are explored from there only. *)
ReadOnly == {"query", "app_retrieve"}

Ready(v) == variant = v /\ last.op \notin ReadOnly

(* the state after POST /upload returned r *)
Uploaded(r) ==
  /\ (r.exc = "Exception" /\ r.ids # <<>>) => faults < MaxFaults
  /\ faults' = IF r.exc = "Exception" /\ r.ids # <<>> THEN faults + 1 ELSE faults
  /\ SetStore(r.s)
  /\ last' = [NoCall EXCEPT !.op = "upload", !.status = r.status, !.exc = r.exc,
                            !.raised = (r.exc # "none"), !.ids = r.ids, !.added = r.added]
  /\ deleted' = deleted \ r.added
  /\ issued' = issued \cup Range(r.ids)
  /\ issued_epoch' = issued_epoch \cup Range(r.ids)

(* POST /upload *)
Upload(requests) ==
  /\ Ready("main")
  /\ \E files \in requests :
       /\ Len(index) + TotalChunks(files) <= MaxRows
       /\ Uploaded(upload_documents(Store, files))
  /\ UNCHANGED <<variant, app_vars>>

(* the state after delete_document(d) ended as r *)
Deleted(r, d) ==
  /\ faults' = IF r.raised THEN faults + 1 ELSE faults
  /\ SetStore(r.s)
  /\ last' = [NoCall EXCEPT !.op = "delete_document", !.raised = r.raised,
                            !.returned = r.returned, !.document_id = d,
                            !.status = IF r.raised THEN Main_except("Exception")
                                       ELSE IF r.returned THEN 200 ELSE 404]
  /\ deleted' = IF r.returned THEN deleted \cup {d} ELSE deleted

(* DELETE /documents/{document_id}: VectorStoreManager.delete_document, 404 when
   it returns False *)
DeleteDocument(outcomes) ==
  /\ Ready("main")
  /\ \E d \in DocIds, o \in outcomes :
       /\ o = "ok" \/ (d \in DOMAIN document_chunks /\ faults < MaxFaults)
       /\ Deleted(delete_document(Store, d, o), d)
  /\ UNCHANGED <<variant, app_vars, issued, issued_epoch>>

(* the state after clear_all ended as r *)
Cleared(r) ==
  /\ faults' = IF r.raised THEN faults + 1 ELSE faults
  /\ SetStore(r.s)
  /\ last' = [NoCall EXCEPT !.op = "clear_all", !.raised = r.raised,
                            !.status = IF r.raised THEN Main_except("Exception") ELSE 200]

(* POST /clear: VectorStoreManager.clear_all *)
ClearAll(outcomes) ==
  /\ Ready("main")
  /\ \E o \in outcomes :
       /\ o = "ok" \/ faults < MaxFaults
       /\ Cleared(clear_all(Store, o))
  /\ issued_epoch' = {}
  /\ UNCHANGED <<variant, app_vars, deleted, issued>>

(* what a call of POST /query leaves in last *)
QueryCall(r, q, k, f) ==
  [NoCall EXCEPT !.op = "query", !.status = r.reply.status, !.kind = r.reply.kind,
                 !.raised = (r.reply.status # 200), !.query = q,
                 !.top_k = k, !.document_ids = f,
                 !.results = r.found.results, !.candidates = r.found.candidates,
                 !.embedded = r.found.embedded, !.generated = r.reply.generated,
                 !.sources = r.reply.sources, !.confidence = r.reply.confidence,
                 !.used = r.reply.used]

(* POST /query of main.py: VectorStoreManager.search, then generate_answer *)
Query ==
  /\ Ready("main")
  /\ \E q \in Queries : \E order \in ScanOrders(index, Encode(q)) :
       \E k \in 1..MaxK, f \in Filters, e \in BOOLEAN, g \in BOOLEAN :
         \* when the embedder raises, neither the scan nor the generator is reached
         /\ e \/ (g /\ order = CHOOSE o \in ScanOrders(index, Encode(q)) : TRUE)
         /\ last' = QueryCall(Main_query_documents(Store, q, k, f, e, order, g), q, k, f)
  /\ UNCHANGED <<variant, app_vars, store_vars, history_vars>>

(* the state after the constructor ended as r *)
Restarted(r) ==
  /\ SetStore(r.s)
  /\ last' = [NoCall EXCEPT !.op = "restart", !.warned = r.warned, !.loaded = r.loaded]

(* the process ends and a new one constructs its VectorStoreManager *)
Restart ==
  /\ Ready("main")
  /\ Restarted(VectorStoreManager_init(index_file, metadata_file))
  /\ issued' = {}
  /\ issued_epoch' = {}
  /\ UNCHANGED <<variant, app_vars, deleted, faults>>

(* -------------------------------------------------------------------- app.py *)

(* why an ingestion request is refused before its text is chunked *)
FileCause(file) ==
  IF ~EndsWith(file.filename, ".pdf") /\ ~EndsWith(file.filename, ".txt") THEN "unsupported"
  ELSE IF ~file.readable THEN "unreadable"
  ELSE IF file.words = <<>> THEN "empty" ELSE "none"

PageCause(page) ==
  IF page.outcome # "ok" THEN page.outcome
  ELSE IF page.words = <<>> THEN "empty" ELSE "none"

(* the state after an ingestion request ended as r *)
Ingested(r, op, cause) ==
  /\ SetApp(r.a)
  /\ last' = [NoCall EXCEPT !.op = op, !.status = r.status, !.cause = cause]

(* the outcomes of the embedding calls: drawn only when the text is embedded *)
MasksFor(words, cause) == IF cause = "none" THEN Masks(words) ELSE {AllOk(words)}

(* POST /api/documents/upload *)
AppUpload(files) ==
  /\ Ready("app")
  /\ \E file \in files : \E mask \in MasksFor(file.words, FileCause(file)) :
       Ingested(upload_document(App, file, mask), "app_upload", FileCause(file))
  /\ UNCHANGED <<variant, store_vars, history_vars, suspended, now, answered>>

(* POST /api/documents/wikipedia *)
AppWikipedia ==
  /\ Ready("app")
  /\ \E page \in Pages : \E mask \in MasksFor(page.words, PageCause(page)) :
       Ingested(load_wikipedia(App, page, mask), "app_wikipedia", PageCause(page))
  /\ UNCHANGED <<variant, store_vars, history_vars, suspended, now, answered>>

(* POST /api/documents/upload up to its only suspension point,
   "content = await file.read()": nothing of the state is read or written yet *)
AppUploadCalled(files) ==
  /\ Ready("app")
  /\ Cardinality(suspended) < MaxSuspended
  /\ \E file \in files \ suspended :
       /\ suspended' = suspended \cup {file}
       /\ last' = [NoCall EXCEPT !.op = "app_upload_called"]
  /\ UNCHANGED <<variant, store_vars, history_vars, app_document_chunks, chunk_embeddings,
                 chat_history, now, answered>>

(* a suspended upload_document resumed: the rest of the handler has no await,
   so the event loop runs it to its return before any other handler *)
AppUploadResumed ==
  /\ Ready("app")
  /\ \E file \in suspended : \E mask \in MasksFor(file.words, FileCause(file)) :
       /\ Ingested(upload_document(App, file, mask), "app_upload", FileCause(file))
       /\ suspended' = suspended \ {file}
  /\ UNCHANGED <<variant, store_vars, history_vars, now, answered>>

(* the results of a retrieval with the similarity of each *)
Ranked(top_indices, similarities) ==
  [i \in 1..Len(top_indices) |->
     [row |-> top_indices[i], similarity |-> similarities[top_indices[i] + 1]]]

(* the state after query_documents(q) ended as r *)
AppQueried(r, q) ==
  /\ SetApp(r.a)
  /\ now' = IF r.status = 200 THEN now + 1 ELSE now
  /\ answered' = IF r.status = 200
                 THEN Append(answered, [question |-> q, answer |-> "answer",
                                        timestamp |-> now])
                 ELSE answered
  /\ last' = [NoCall EXCEPT !.op = "app_query", !.status = r.status, !.query = q,
                            !.top_k = APP_TOP_K,
                            !.results = Ranked(r.top_indices, r.similarities),
                            !.confidence = r.confidence, !.embedded = r.embedded,
                            !.generated = r.generated,
                            !.query_embedding = r.query_embedding]

(* POST /api/query, for the questions given and while fewer than limit answers
   were given *)
AppQuery(questions, limit) ==
  /\ Ready("app")
  /\ now < limit
  /\ \E q \in questions, e \in BOOLEAN :
       \E argsort \in ArgSorts(Similarities(chunk_embeddings, get_embedding(<<q>>, e))) :
         \E g \in BOOLEAN :
           AppQueried(App_query_documents(App, q, e, argsort, g, now), q)
  /\ UNCHANGED <<variant, store_vars, history_vars, suspended>>

(* what a call of retrieve_relevant_chunks leaves in last *)
RetrieveCall(r, q, k) ==
  [NoCall EXCEPT !.op = "app_retrieve", !.query = q, !.top_k = k,
                 !.results = Ranked(r.top_indices, r.similarities),
                 !.confidence = r.max_similarity, !.embedded = r.embedded,
                 !.query_embedding = r.query_embedding]

(* retrieve_relevant_chunks called with any top_k *)
AppRetrieve ==
  /\ Ready("app")
  /\ \E q \in Queries, e \in BOOLEAN :
       \E argsort \in ArgSorts(Similarities(chunk_embeddings, get_embedding(<<q>>, e))) :
         \E k \in 1..MaxK :
           last' = RetrieveCall(retrieve_relevant_chunks(app_document_chunks,
                                  chunk_embeddings, q, k, e, argsort), q, k)
  /\ UNCHANGED <<variant, store_vars, history_vars, app_vars>>

(* DELETE /api/history *)
AppClearHistory ==
  /\ Ready("app")
  /\ chat_history' = <<>>
  /\ answered' = <<>>
  /\ last' = [NoCall EXCEPT !.op = "app_clear_history", !.status = 200]
  /\ UNCHANGED <<variant, store_vars, history_vars, app_document_chunks,
                 chunk_embeddings, suspended, now>>

(* DELETE /api/documents *)
AppClearDocuments ==
  /\ Ready("app")
  /\ app_document_chunks' = <<>>
  /\ chunk_embeddings' = <<>>
  /\ last' = [NoCall EXCEPT !.op = "app_clear_documents", !.status = 200]
  /\ UNCHANGED <<variant, store_vars, history_vars, chat_history, suspended, now,
                 answered>>

(* ------------------------------------------------------------ specifications *)

(* Both programs, with every snapshot write succeeding. *)
Next ==
  \/ Upload(SearchRequests)
  \/ DeleteDocument(WritesOk)
  \/ ClearAll(WritesOk)
  \/ Query
  \/ Restart
  \/ AppUpload(AppFiles)
  \/ AppWikipedia
  \/ AppQuery(Queries, MaxAsked)
  \/ AppRetrieve
  \/ AppClearHistory
  \/ AppClearDocuments

Spec == Init /\ [][Next]_vars

(* The flat-index variant with up to MaxFaults snapshot writes failing, in
   every way a write can fail. *)
InitPersist == Init /\ variant = "main"

NextPersist ==
  \/ Upload(PersistRequests)
  \/ DeleteDocument(SaveOutcomes)
  \/ ClearAll(SaveOutcomes)
  \/ Restart

SpecPersist == InitPersist /\ [][NextPersist]_vars

(* app.py with one document and one question, long enough for the history log
   to pass its cap. *)
HistoryFiles == {[filename |-> "n.txt", readable |-> TRUE, words |-> <<"ta", "tb">>]}

InitHistory == Init /\ variant = "app"

NextHistory ==
  \/ AppUpload(HistoryFiles)
  \/ AppQuery({"qa"}, MaxHistory)
  \/ AppClearHistory
  \/ AppClearDocuments

SpecHistory == InitHistory /\ [][NextHistory]_vars

(* app.py serving concurrent requests on its event loop: a handler runs from
   one await to the next without interruption.  upload_document has one await,
   before it touches the state; load_wikipedia, query_documents and
   clear_documents have none. *)
ConcurrentFiles ==
  {[filename |-> "n.txt", readable |-> TRUE, words |-> <<"ta", "tb">>],
   [filename |-> "a.pdf", readable |-> TRUE, words |-> Words(LongWords)],
   [filename |-> "a.pdf", readable |-> FALSE, words |-> <<"ta", "tb">>],
   [filename |-> "x.doc", readable |-> TRUE, words |-> <<"ta", "tb">>]}

InitConcurrent == Init /\ variant = "app"

NextConcurrent ==
  \/ AppUploadCalled(ConcurrentFiles)
  \/ AppUploadResumed
  \/ AppWikipedia
  \/ AppQuery(Queries, MaxAsked)
  \/ AppClearDocuments

SpecConcurrent == InitConcurrent /\ [][NextConcurrent]_vars

(* ---- chunk_text on its own: every text of up to MaxWords words, every
   chunk_size up to MaxSize and every overlap below it ---- *)
WordSeqs == UNION {[1..n -> Texts] : n \in 0..MaxWords}

ChunkInputs ==
  {[NoCall EXCEPT !.words = w, !.chunk_size = size, !.overlap = o] :
     w \in WordSeqs, size \in 1..MaxSize, o \in 0..(MaxSize - 1)}

InitChunk ==
  /\ variant = "app"
  /\ InitStore
  /\ InitHistoryVars
  /\ InitApp
  /\ last \in {c \in ChunkInputs : c.overlap < c.chunk_size}

(* chunk_text(words, chunk_size, overlap) *)
ChunkText ==
  /\ last.op = "start"
  /\ last' = [last EXCEPT !.op = "chunk_text",
                          !.chunks = chunk_text(last.words, last.chunk_size, last.overlap)]
  /\ UNCHANGED <<variant, store_vars, history_vars, app_vars>>

NextChunk == ChunkText

SpecChunk == InitChunk /\ [][NextChunk]_vars

(* ====================================================================== *)
(*  Properties                                                             *)
(* ====================================================================== *)

Rows(results) == [i \in 1..Len(results) |-> results[i].row]

NoDuplicates(seq) == \A i, j \in 1..Len(seq) : i # j => seq[i] # seq[j]

NonIncreasing(seq) == \A i \in 1..(Len(seq) - 1) : seq[i] >= seq[i + 1]

(* C1: once delete_document(d) has returned True, and until d is added again,
   list_documents never contains d and search never returns a result of d,
   whatever is added, deleted, searched, saved and loaded afterwards. *)
C1_DeletedStaysGone ==
  \A d \in deleted :
    /\ d \notin list_documents(Store)
    /\ last.op = "query" => \A i \in 1..Len(last.results) : last.results[i].document_id # d

(* a search after a delete whose scan brought back a row that has no payload
   any more, and that still returned results *)
C1_Witness ==
  /\ last.op = "query"
  /\ deleted # {}
  /\ last.results # <<>>
  /\ \E i \in 1..Len(last.candidates) : ToStr(last.candidates[i]) \notin DOMAIN metadata_store

(* C2: when a document_ids list is supplied to search, the empty list
   included, every result belongs to a document of the list. *)
C2_FilteredOnly ==
  (last.op = "query" /\ last.document_ids.supplied) =>
    \A i \in 1..Len(last.results) : last.results[i].document_id \in last.document_ids.ids

(* C3: search and retrieve_relevant_chunks return at most k results, by
   non-increasing similarity (non-decreasing distance), no row twice. *)
C3_TopKRanked ==
  /\ last.op = "query" =>
       /\ Len(last.results) <= last.top_k
       /\ NonIncreasing([i \in 1..Len(last.results) |-> last.results[i].similarity])
       /\ NonIncreasing([i \in 1..Len(last.results) |-> 0 - last.results[i].score])
       /\ NoDuplicates(Rows(last.results))
  /\ last.op \in {"app_query", "app_retrieve"} =>
       /\ Len(last.results) <= last.top_k
       /\ NonIncreasing([i \in 1..Len(last.results) |-> last.results[i].similarity])
       /\ NoDuplicates(Rows(last.results))

(* a search that stopped at k = 2 results of different similarity with a third
   row stored *)
C3_Witness ==
  /\ last.op = "query"
  /\ last.top_k = 2
  /\ Len(last.results) = 2
  /\ last.results[1].similarity > last.results[2].similarity
  /\ Cardinality(DOMAIN metadata_store) = 3

C5_ClientErrors400 ==
  /\ (last.op = "upload" /\ last.exc \in {"HTTPException400", "ValueError"}) =>
       last.status = 400
  /\ (last.op = "app_upload" /\ last.cause \in {"unsupported", "empty"}) =>
       last.status = 400
  /\ (last.op = "app_wikipedia" /\ last.cause = "empty") => last.status = 400

(* C6: no placeholder vector is stored or used to rank: every stored embedding
   is the embedder's output for its chunk, and so is the query's. *)
C6_NoPlaceholder ==
  /\ \A i \in 1..Len(chunk_embeddings) :
       chunk_embeddings[i] = Embed(app_document_chunks[i])
  /\ \A r \in 0..(Len(index) - 1) :
       ToStr(r) \in DOMAIN metadata_store =>
         index[r + 1] = Encode(metadata_store[ToStr(r)].text)
  /\ (last.op \in {"app_query", "app_retrieve"} /\ last.embedded) =>
       last.query_embedding = Encode(last.query)

(* the last n items of a sequence *)
LastN(seq, n) == SubSeq(seq, Len(seq) - Min(n, Len(seq)) + 1, Len(seq))

(* C7: the history log holds at most 50 items and is always the most recent
   min(n, 50) of the n queries answered since the last clear_history, in the
   order they were answered. *)
C7_HistoryIsLast50 ==
  /\ Len(chat_history) <= 50
  /\ chat_history = LastN(answered, 50)

(* the 51st answer since the last clear: the first item is gone *)
C7_Witness ==
  /\ last.op = "app_query"
  /\ last.status = 200
  /\ Len(answered) = 51
  /\ Len(chat_history) = 50
  /\ chat_history[1] = answered[2]
  /\ chat_history[50] = answered[51]

(* a mutating call of the VectorStoreManager that returned *)
ReturnedMutation ==
  \/ last.op = "upload" /\ last.status = 200
  \/ last.op = "delete_document" /\ last.returned
  \/ last.op = "clear_all" /\ ~last.raised

(* the manager a restart at this point would construct *)
Reloaded == VectorStoreManager_init(index_file, metadata_file).s

(* C8: after add_document, delete_document or clear_all has returned, the two
   artifacts hold the in-memory state: a restart gives the same number of index
   rows, the same metadata_store and the same document_chunks. *)
C8_SnapshotIsState ==
  ReturnedMutation =>
    /\ Len(Reloaded.index) = Len(index)
    /\ Reloaded.metadata_store = metadata_store
    /\ Reloaded.document_chunks = document_chunks

(* an upload that returned after an earlier write had failed *)
C8_Witness ==
  /\ last.op = "upload"
  /\ last.status = 200
  /\ faults > 0
  /\ Len(index) >= 2
  /\ DOMAIN document_chunks # {}

(* C9: a start that does not load the persisted state, because an artifact is
   missing or unreadable, leaves the store fully empty. *)
C9_EmptyUnlessLoaded ==
  (last.op = "restart" /\ ~last.loaded) =>
    /\ Len(index) = 0
    /\ metadata_store = EmptyMap
    /\ document_chunks = EmptyMap

(* C10 as claimed: add_document never hands out a row id it has handed out
   before in this process. *)
C10_NeverReused ==
  [][last'.op = "upload" => Range(last'.ids) \cap issued = {}]_vars

(* C10 as amended: the row ids add_document hands out are consecutive, above
   every id handed out since the last clear_all of this process, and so never
   reused between two clear_all calls. *)
C10_NeverReusedSinceClear ==
  [][last'.op = "upload" =>
       /\ \A i \in 1..(Len(last'.ids) - 1) : last'.ids[i + 1] = last'.ids[i] + 1
       /\ \A i \in 1..Len(last'.ids) : \A x \in issued_epoch : x < last'.ids[i]]_vars

(* an upload after a clear_all that was given row ids again while the process
   had handed out higher ones before *)
C10_Witness ==
  /\ last.op = "upload"
  /\ last.ids # <<>>
  /\ \E x \in issued : x >= Len(index)

(* C11: a search with no stored rows returns nothing with similarity 0, calls
   no embedder and does not raise, in both programs, also after the rows were
   cleared; clear_all and clear_documents leave the store empty, whatever it
   held. *)
C11_EmptySearch ==
  /\ (last.op = "query" /\ Len(index) = 0) =>
       /\ last.results = <<>>
       /\ last.confidence = 0
       /\ ~last.embedded
       /\ ~last.raised
  /\ (last.op = "app_retrieve" /\ app_document_chunks = <<>>) =>
       /\ last.results = <<>>
       /\ last.confidence = 0
       /\ ~last.embedded
  /\ last.op = "clear_all" =>
       Len(index) = 0 /\ metadata_store = EmptyMap /\ document_chunks = EmptyMap
  /\ last.op = "app_clear_documents" =>
       app_document_chunks = <<>> /\ chunk_embeddings = <<>>

(* a search of main.py on the index that clear_all emptied after rows had been
   handed out in this process *)
C11_Witness ==
  /\ last.op = "query"
  /\ Len(index) = 0
  /\ issued # {}
  /\ last.results = <<>>

(* seq[:n] and seq[-n:] *)
Prefix(seq, n) == SubSeq(seq, 1, Min(n, Len(seq)))

Suffix(seq, n) == SubSeq(seq, Len(seq) - Min(n, Len(seq)) + 1, Len(seq))

(* the words each chunk adds to the ones before it, one after the other *)
RECURSIVE Fresh(_, _)
Fresh(chunks, step) ==
  IF chunks = <<>> THEN <<>> ELSE Prefix(Head(chunks), step) \o Fresh(Tail(chunks), step)

(* one chunk at each offset 0, step, 2*step, ... below the word count, each of
   at most chunk_size words, together covering the text in order *)
ChunkWindows(c) ==
  LET n == Len(c.words)
      step == c.chunk_size - c.overlap
  IN /\ Len(c.chunks) = (n + step - 1) \div step
     /\ \A k \in 1..Len(c.chunks) :
          /\ Len(c.chunks[k]) >= 1
          /\ Len(c.chunks[k]) <= c.chunk_size
          /\ c.chunks[k] = Prefix(Suffix(c.words, n - (k - 1) * step), Len(c.chunks[k]))
     /\ Fresh(c.chunks, step) = c.words

(* C12 as claimed: chunk_text gives one chunk per offset, each of at most size
   words, covering the text in order, and every two consecutive chunks share
   exactly overlap words, at the final boundary too. *)
C12_ExactOverlap ==
  (last.op = "chunk_text" /\ last.words # <<>>) =>
    /\ ChunkWindows(last)
    /\ \A k \in 1..(Len(last.chunks) - 1) :
         /\ Len(last.chunks[k]) >= last.overlap
         /\ Len(last.chunks[k + 1]) >= last.overlap
         /\ Suffix(last.chunks[k], last.overlap) = Prefix(last.chunks[k + 1], last.overlap)

(* C12 as amended: chunk_text gives one chunk per offset, each of at most size
   words, covering the text in order; a chunk of size words shares exactly its
   last overlap words with the next chunk, and a chunk cut short by the end of
   the text contains the whole of the next chunk, which has fewer than overlap
   words. *)
C12_OverlapUntilTail ==
  (last.op = "chunk_text" /\ last.words # <<>>) =>
    /\ ChunkWindows(last)
    /\ \A k \in 1..(Len(last.chunks) - 1) :
         IF Len(last.chunks[k]) = last.chunk_size
         THEN /\ Len(last.chunks[k + 1]) >= last.overlap
              /\ Suffix(last.chunks[k], last.overlap)
                   = Prefix(last.chunks[k + 1], last.overlap)
         ELSE /\ Len(last.chunks[k + 1]) < last.overlap
              /\ Suffix(last.chunks[k], Len(last.chunks[k + 1])) = last.chunks[k + 1]

(* a text whose last chunk is shorter than the overlap *)
C12_Witness ==
  /\ last.op = "chunk_text"
  /\ last.overlap >= 2
  /\ Len(last.chunks) >= 3
  /\ Len(last.chunks[Len(last.chunks)]) < last.overlap
  /\ Len(last.chunks[1]) = last.chunk_size

(* the mean similarity, in thousandths, of the first n results *)
MeanSimilarity(results, n) ==
  SumSeq([i \in 1..n |-> results[i].similarity]) \div n

(* C13: the confidence of generate_answer is the mean similarity of exactly the
   chunks that entered the context, capped at 1.0, and it is 0.0 with no
   sources when no chunk fits the budget. *)
C13_ConfidenceOfUsed ==
  /\ (last.op = "query" /\ last.kind = "answer") =>
       last.confidence = Min(MeanSimilarity(last.results, last.used), 1000)
  /\ (last.op = "query" /\ last.kind = "no_context") =>
       last.confidence = 0 /\ last.sources = <<>>

(* the similarity of every stored chunk to the query of the last retrieval *)
AllSimilarities == Similarities(chunk_embeddings, last.query_embedding)

(* C14: retrieve_relevant_chunks returns the k chunks of highest similarity by
   descending similarity; of two chunks of equal similarity the one at the lower
   position of document_chunks is ranked first and is the one kept in the top k;
   the similarity reported is that of the best match. *)
C14_TiesByInsertion ==
  (last.op = "app_retrieve" /\ app_document_chunks # <<>>) =>
    LET sims == AllSimilarities
        rows == Range(Rows(last.results))
    IN /\ Len(last.results) = Min(last.top_k, Len(app_document_chunks))
       /\ \A i \in 1..Len(last.results) :
            last.results[i].similarity = sims[last.results[i].row + 1]
       /\ NonIncreasing([i \in 1..Len(last.results) |-> last.results[i].similarity])
       /\ \A r \in rows : \A j \in 0..(Len(sims) - 1) :
            j \notin rows =>
              \/ sims[j + 1] < sims[r + 1]
              \/ sims[j + 1] = sims[r + 1] /\ r < j
       /\ \A i \in 1..(Len(last.results) - 1) :
            last.results[i].similarity = last.results[i + 1].similarity =>
              last.results[i].row < last.results[i + 1].row
       /\ \A j \in 1..Len(sims) : sims[j] <= last.confidence
       /\ last.confidence = last.results[1].similarity

(* the metadata_store keys whose payload belongs to document d *)
KeysOf(d) == {k \in DOMAIN metadata_store : metadata_store[k].document_id = d}

(* C15: for every document of document_chunks the metadata_store keys of its
   payloads are exactly its recorded vector_ids, chunk_count is their number,
   each is below the index row count, and no payload belongs to a document that
   document_chunks does not hold. *)
C15_StoreConsistent ==
  /\ \A d \in DOMAIN document_chunks :
       LET ids == Range(document_chunks[d].vector_ids)
       IN /\ KeysOf(d) = {ToStr(i) : i \in ids}
          /\ document_chunks[d].chunk_count = Cardinality(ids)
          /\ \A i \in ids : i < Len(index)
  /\ \A k \in DOMAIN metadata_store :
       metadata_store[k].document_id \in DOMAIN document_chunks

(* C16: a POST /upload of main.py that is answered with an error leaves the
   index row count, metadata_store and document_chunks as they were before the
   request. *)
C16_FailedUploadNoEffect ==
  [][(last'.op = "upload" /\ last'.status # 200) =>
       /\ Len(index') = Len(index)
       /\ metadata_store' = metadata_store
       /\ document_chunks' = document_chunks]_vars

(* the two lists of app.py come from one ingestion: an embedding per chunk,
   each the embedder's output for its chunk or the placeholder of get_embedding *)
OneIngestion ==
  /\ Len(chunk_embeddings) = Len(app_document_chunks)
  /\ \A i \in 1..Len(app_document_chunks) :
       chunk_embeddings[i] \in {Embed(app_document_chunks[i]), ZeroVector}

(* what a query ranked is the stored chunks by their own embeddings *)
RankedOwn ==
  last.op = "app_query" =>
    \A i \in 1..Len(last.results) :
      /\ last.results[i].row < Len(app_document_chunks)
      /\ last.results[i].similarity
           = cosine_similarity(last.query_embedding, chunk_embeddings[last.results[i].row + 1])

(* C17: with upload, topic-load, clear_documents and query requests interleaved
   at the suspension points of the handlers of app.py, every query sees
   document_chunks and chunk_embeddings of equal length from one ingestion, or
   both empty, and an upload that fails leaves both lists as they were. *)
C17_QueriesSeeOneIngestion ==
  [][/\ OneIngestion'
     /\ RankedOwn'
     /\ (last'.op \in {"app_upload", "app_wikipedia"} /\ last'.status # 200) =>
          /\ app_document_chunks' = app_document_chunks
          /\ chunk_embeddings' = chunk_embeddings]_vars

(* a query answered from a loaded document while an upload of another file is
   suspended in its read *)
C17_Witness ==
  /\ last.op = "app_query"
  /\ last.status = 200
  /\ suspended # {}
  /\ Len(app_document_chunks) >= 2
  /\ \E file \in suspended :
       file.words # <<>> /\ chunk_text(file.words, CHUNK_SIZE_WORDS, OVERLAP_WORDS)
                              # app_document_chunks

====
